---- MODULE Spec2Model ----
(***************************************************************************)
(* FlowVision: the asynchronous task lifecycle around the OCR pipeline.    *)
(*                                                                         *)
(* Two task managers live in the repository and both are modelled:         *)
(*                                                                         *)
(*  Spec     the ocr-service: an in-memory registry (tasks_storage) filled *)
(*           by POST /ocr/tasks, read by GET /ocr/tasks/{id}, changed by   *)
(*           DELETE /ocr/tasks/{id} and by the Celery task                 *)
(*           process_document through update_task_status.                  *)
(*                                                                         *)
(*  SpecApp  the app service: POST /process downloads the source into      *)
(*           /tmp/ocr_processing and dispatches process_document_task      *)
(*           (max_retries=3); GET /tasks/{id} reads the Celery result      *)
(*           backend.                                                      *)
(*                                                                         *)
(* Python's None is the empty sequence and a present value v is <<v>>, so  *)
(* that "" (an empty message) and None stay different values.              *)
(***************************************************************************)
EXTENDS Integers, Sequences, FiniteSets, TLC

VARIABLES
    tasks_storage,   \* routes.tasks_storage: task_id -> TaskStatus
    invocations,     \* process_document messages and the frame of each run
    tmpfiles,        \* the files NamedTemporaryFile left on disk: name -> mtime
    now,             \* the clock, in seconds (time.time(), datetime.utcnow())
    resp,            \* the ocr-service's last HTTP answer: handler and code
    backend,         \* app service: per Celery task its message, frame and result
    local_files,     \* app service: /tmp/ocr_processing, path -> file
    app_resp,        \* the app service's last HTTP answer
    pipe,            \* one call of OCRPipeline.process: its position and locals
    norm,            \* one field put through TextPostprocessor._process_field
    main,            \* app/main.py: one POST /api/v1/ocr/process and its answer
    call             \* one call of a library function: its arguments and result

vars == <<tasks_storage, invocations, tmpfiles, now, resp,
          backend, local_files, app_resp, pipe, norm, main, call>>

ocr_vars == <<tasks_storage, invocations, tmpfiles, resp>>
app_vars == <<backend, local_files, app_resp>>
ext_vars == <<main, call>>
lib_vars == <<pipe, norm, ext_vars>>

(***************************************************************************)
(* Bounds of the model.                                                    *)
(***************************************************************************)
MaxInvocations == 2      \* process_document messages dispatched in one run
MaxTasks == 1            \* POST /ocr/tasks requests in a run without batches
MaxBatchLen == 2         \* len(file_urls) of one process_batch call
MaxTime == 1             \* seconds the clock may advance
MaxAppTasks == 2         \* POST /process requests that dispatch a task

None == <<>>
Some(v) == <<v>>

(***************************************************************************)
(* Task ids.  create_ocr_task draws uuid4() values, taken as fresh;        *)
(* process_batch formats f"batch_{i}_{int(time.time())}".                  *)
(***************************************************************************)
Uuid4(n) == [kind |-> "uuid", a |-> n, b |-> 0]

BatchTaskId(i, t) == [kind |-> "batch", a |-> i, b |-> t]

UnknownTaskId == [kind |-> "uuid", a |-> 0, b |-> 0]

(***************************************************************************)
(* Messages str(e) of the exceptions a pipeline stage may raise: a bare    *)
(* `raise AssertionError()` or MemoryError() has the empty message.        *)
(***************************************************************************)
StageErrors == {"", "stage error"}

Stages == <<"preprocess", "detect", "recognize", "extract", "postprocess">>

NumStages == Len(Stages)

(***************************************************************************)
(* Python truthiness, as used by `if result:` and `if error_message:`.     *)
(***************************************************************************)
TruthyDict(opt) == opt # None /\ DOMAIN opt[1] # {}

TruthyStr(opt) == opt # None /\ opt[1] # ""

(***************************************************************************)
(* TaskStatus(task_id=..., status="pending", created_at=utcnow())          *)
(***************************************************************************)
NewTaskStatus(tid, t) ==
    [task_id |-> tid, status |-> "pending", result |-> None,
     error_message |-> None, created_at |-> t, completed_at |-> None]

NewInvocation(tid) ==
    [task_id |-> tid, pc |-> "queued", stage |-> 0,
     tmp_file |-> None, tmp_path |-> None, result |-> None,
     upd |-> None, ret |-> "none"]

\* No call of the pipeline or of the postprocessor is under way.
PipeIdle == [pc |-> "idle"]

NormIdle == [pc |-> "idle"]

\* No request of the stand-alone endpoints and no library call under way.
ExtIdle ==
    /\ main = [pc |-> "idle"]
    /\ call = [pc |-> "idle"]

\* Both services right after start.
ServicesInit ==
    /\ tasks_storage = << >>
    /\ invocations = << >>
    /\ tmpfiles = << >>
    /\ now = 0
    /\ resp = [op |-> "none", code |-> 0]
    /\ backend = << >>
    /\ local_files = << >>
    /\ app_resp = [op |-> "none", code |-> 0, status |-> "none"]

Init ==
    /\ ServicesInit
    /\ pipe = PipeIdle
    /\ norm = NormIdle
    /\ ExtIdle


(***************************************************************************)
(*                      ocr-service: api/routes.py                         *)
(***************************************************************************)

\* uuid.uuid4(): a value no earlier task carries.
FreshUuid ==
    Uuid4(Cardinality({t \in DOMAIN tasks_storage : t.kind = "uuid"}) + 1)

\* process_document.delay(...) / apply_async(...): one more message.
Dispatch(q, tid) == Append(q, NewInvocation(tid))

\* POST /ocr/tasks
create_ocr_task ==
    /\ Len(invocations) < MaxInvocations
    /\ LET task_id == FreshUuid IN
        /\ tasks_storage' = tasks_storage @@ (task_id :> NewTaskStatus(task_id, now))
        /\ invocations' = Dispatch(invocations, task_id)
        /\ resp' = [op |-> "create", code |-> 200]
    /\ UNCHANGED <<tmpfiles, now, app_vars, lib_vars>>

\* shared/enums.py ProcessingStatus: the values OCRTaskStatusResponse.status accepts.
ProcessingStatus ==
    {"pending", "queued", "processing", "completed", "failed", "partial_success"}

\* ProcessingResultSchema validation of `result`: document_id is a required
\* field and status must be a ProcessingStatus.
ResultSchemaAccepts(result) ==
    \/ result = None
    \/ /\ "document_id" \in DOMAIN result[1]
       /\ "status" \in DOMAIN result[1]
       /\ result[1].status \in ProcessingStatus

\* GET /ocr/tasks/{task_id}: the response the handler builds from the registry
\* as it is now; a pydantic ValidationError surfaces as 500.
StatusResponse(task_id) ==
    IF task_id \notin DOMAIN tasks_storage
    THEN [code |-> 404, body |-> None]
    ELSE LET task == tasks_storage[task_id] IN
         IF task.status \in ProcessingStatus /\ ResultSchemaAccepts(task.result)
         THEN [code |-> 200,
               body |-> Some([status |-> task.status,
                              result |-> task.result,
                              error_message |-> task.error_message,
                              created_at |-> task.created_at,
                              completed_at |-> task.completed_at])]
         ELSE [code |-> 500, body |-> None]

\* The handler answers StatusResponse(task_id); resp keeps its status code.
get_task_status(task_id) ==
    /\ resp' = [op |-> "get_status", code |-> StatusResponse(task_id).code]
    /\ UNCHANGED <<tasks_storage, invocations, tmpfiles, now, app_vars, lib_vars>>

\* A faulty variant of the test below: it lets a failed task be cancelled.
CancelRefusedMutant(st) == st = "completed"

\* `if task.status in ("completed", "failed")`: the statuses cancel refuses.
CancelRefused(st) == st \in {"completed", "failed"}

\* DELETE /ocr/tasks/{task_id}
cancel_task(task_id) ==
    /\ IF task_id \notin DOMAIN tasks_storage
       THEN /\ resp' = [op |-> "cancel", code |-> 404]
            /\ UNCHANGED tasks_storage
       ELSE IF CancelRefused(tasks_storage[task_id].status)
       THEN /\ resp' = [op |-> "cancel", code |-> 400]
            /\ UNCHANGED tasks_storage
       ELSE /\ tasks_storage' = [tasks_storage EXCEPT ![task_id].status = "cancelled"]
            /\ resp' = [op |-> "cancel", code |-> 200]
    /\ UNCHANGED <<invocations, tmpfiles, now, app_vars, lib_vars>>

(***************************************************************************)
(*                 ocr-service: workers/celery_tasks.py                    *)
(***************************************************************************)

RECURSIVE BatchDispatch(_, _, _, _)
\* The loop of process_batch over file_urls[i..n-1] at clock reading t.
BatchDispatch(q, i, n, t) ==
    IF i >= n THEN q
    ELSE BatchDispatch(Dispatch(q, BatchTaskId(i, t)), i + 1, n, t)

\* process_batch(file_urls) with len(file_urls) = n
process_batch(n) ==
    /\ Len(invocations) + n <= MaxInvocations
    /\ invocations' = BatchDispatch(invocations, 0, n, now)
    /\ UNCHANGED <<tasks_storage, tmpfiles, now, resp, app_vars, lib_vars>>

\* The frame of invocation k after calling update_task_status(...), which
\* returns to `ret`.
CallUpdate(inv, st, result, error_message, ret) ==
    [inv EXCEPT !.pc = "upd_status",
                !.upd = Some([status |-> st, result |-> result,
                              error_message |-> error_message]),
                !.ret = ret]

\* process_document: entry, `update_task_status(task_id, "processing", None)`
Begin(k) ==
    /\ invocations[k].pc = "queued"
    /\ invocations' = [invocations EXCEPT
            ![k] = CallUpdate(@, "processing", None, None, "download")]
    /\ UNCHANGED <<tasks_storage, tmpfiles, now, resp, app_vars, lib_vars>>

\* update_task_status: `if task_id in tasks_storage: ... task.status = status`
UpdStatus(k) ==
    LET inv == invocations[k] IN
    /\ inv.pc = "upd_status"
    /\ IF inv.task_id \in DOMAIN tasks_storage
       THEN /\ tasks_storage' =
                   [tasks_storage EXCEPT ![inv.task_id].status = inv.upd[1].status]
            /\ invocations' = [invocations EXCEPT ![k].pc = "upd_completed_at"]
       ELSE /\ invocations' = [invocations EXCEPT ![k].pc = inv.ret,
                                                  ![k].upd = None,
                                                  ![k].ret = "none"]
            /\ UNCHANGED tasks_storage
    /\ UNCHANGED <<tmpfiles, now, resp, app_vars, lib_vars>>

\* update_task_status: `task.completed_at = datetime.utcnow()`
UpdCompletedAt(k) ==
    LET inv == invocations[k] IN
    /\ inv.pc = "upd_completed_at"
    /\ tasks_storage' = [tasks_storage EXCEPT ![inv.task_id].completed_at = Some(now)]
    /\ invocations' = [invocations EXCEPT ![k].pc = "upd_fields"]
    /\ UNCHANGED <<tmpfiles, now, resp, app_vars, lib_vars>>

\* update_task_status: `if result: ...; if error_message: ...`
AttachFields(task, upd) ==
    [task EXCEPT
        !.result = IF TruthyDict(upd.result) THEN upd.result ELSE @,
        !.error_message = IF TruthyStr(upd.error_message)
                          THEN upd.error_message ELSE @]

UpdFields(k) ==
    LET inv == invocations[k] IN
    /\ inv.pc = "upd_fields"
    /\ tasks_storage' =
           [tasks_storage EXCEPT ![inv.task_id] = AttachFields(@, inv.upd[1])]
    /\ invocations' = [invocations EXCEPT ![k].pc = inv.ret,
                                          ![k].upd = None,
                                          ![k].ret = "none"]
    /\ UNCHANGED <<tmpfiles, now, resp, app_vars, lib_vars>>

\* `except Exception as e: update_task_status(task_id, "failed", None,
\* error_message=str(e)); raise`
OuterExcept(inv, msg) == CallUpdate(inv, "failed", None, Some(msg), "raised")

\* `file_data = minio_client.download_file(object_name)`: returns the bytes
\* or re-raises the storage's S3Error.
Download(k) ==
    /\ invocations[k].pc = "download"
    /\ \/ invocations' = [invocations EXCEPT ![k].pc = "write_tmp"]
       \/ invocations' = [invocations EXCEPT ![k] = OuterExcept(@, "S3Error")]
    /\ UNCHANGED <<tasks_storage, tmpfiles, now, resp, app_vars, lib_vars>>

\* The name NamedTemporaryFile gives: one no existing file has.  Names are
\* interchangeable, so the least free one stands for the random choice.
FreshTmpName ==
    CHOOSE name \in 1..(Cardinality(DOMAIN tmpfiles) + 1) :
        /\ name \notin DOMAIN tmpfiles
        /\ \A m \in 1..(name - 1) : m \in DOMAIN tmpfiles

\* `with tempfile.NamedTemporaryFile(delete=False, suffix=".jpg") as tmp_file:
\*      tmp_file.write(file_data); tmp_path = tmp_file.name`
\* The file exists from the constructor on, in the system's temporary
\* directory, with the time of its creation as mtime; a failing write leaves
\* the with block before tmp_path is bound.
WriteTmp(k) ==
    /\ invocations[k].pc = "write_tmp"
    /\ LET name == FreshTmpName IN
        /\ tmpfiles' = [n \in DOMAIN tmpfiles \cup {name} |->
                            IF n = name THEN now ELSE tmpfiles[n]]
        /\ \/ invocations' = [invocations EXCEPT ![k].tmp_file = Some(name),
                                                 ![k].tmp_path = Some(name),
                                                 ![k].pc = "pipeline",
                                                 ![k].stage = 1]
           \/ invocations' = [invocations EXCEPT
                   ![k] = OuterExcept([@ EXCEPT !.tmp_file = Some(name)], "OSError")]
    /\ UNCHANGED <<tasks_storage, now, resp, app_vars, lib_vars>>

(***************************************************************************)
(*                     ocr-service: ocr/pipeline.py                        *)
(***************************************************************************)

\* The dict OCRPipeline.process returns on the completed path.
CompletedResult ==
    [status |-> "completed", fields |-> "final_fields",
     raw_text |-> "raw_text", processing_time |-> 0]

\* The dict of its `except Exception as e` path.
FailedResult(msg) ==
    [status |-> "failed", error |-> msg, processing_time |-> 0]

\* One stage of OCRPipeline.process returns, or raises inside the try block.
\* The stages follow each other with no check of the task's status between.
StageStep(k) ==
    LET inv == invocations[k] IN
    /\ inv.pc = "pipeline"
    /\ \/ /\ inv.stage < NumStages
          /\ invocations' = [invocations EXCEPT ![k].stage = inv.stage + 1]
       \/ /\ inv.stage = NumStages
          /\ invocations' = [invocations EXCEPT ![k].pc = "report",
                                                ![k].stage = 0,
                                                ![k].result = Some(CompletedResult)]
       \/ \E msg \in StageErrors :
             invocations' = [invocations EXCEPT ![k].pc = "report",
                                                ![k].stage = 0,
                                                ![k].result = Some(FailedResult(msg))]
    /\ UNCHANGED <<tasks_storage, tmpfiles, now, resp, app_vars, lib_vars>>

\* dict.get(key, default)
DictGet(d, key, default) == IF key \in DOMAIN d THEN d[key] ELSE default

\* `if result.get("status") == "completed": update_task_status(task_id,
\* "completed", result, ...) else: update_task_status(task_id, "failed", None,
\* error_message=result.get("error", "Unknown error"))`
Report(k) ==
    LET inv == invocations[k]
        result == inv.result[1]
    IN
    /\ inv.pc = "report"
    /\ invocations' = [invocations EXCEPT ![k] =
           IF DictGet(result, "status", "") = "completed"
           THEN CallUpdate(@, "completed", Some(result), None, "finally")
           ELSE CallUpdate(@, "failed", None,
                           Some(DictGet(result, "error", "Unknown error")), "finally")]
    /\ UNCHANGED <<tasks_storage, tmpfiles, now, resp, app_vars, lib_vars>>

\* `finally: if os.path.exists(tmp_path): os.remove(tmp_path)`; `return result`
Finally(k) ==
    LET inv == invocations[k] IN
    /\ inv.pc = "finally"
    /\ tmpfiles' = [n \in DOMAIN tmpfiles \ {inv.tmp_path[1]} |-> tmpfiles[n]]
    /\ invocations' = [invocations EXCEPT ![k].pc = "done"]
    /\ UNCHANGED <<tasks_storage, now, resp, app_vars, lib_vars>>

\* The clock advances.
Tick ==
    /\ now < MaxTime
    /\ now' = now + 1
    /\ UNCHANGED <<ocr_vars, app_vars, lib_vars>>

QueryIds == DOMAIN tasks_storage \cup {UnknownTaskId}

Next ==
    \/ create_ocr_task
    \/ \E n \in 1..MaxBatchLen : process_batch(n)
    \/ \E t \in QueryIds : get_task_status(t)
    \/ \E t \in QueryIds : cancel_task(t)
    \/ \E k \in 1..Len(invocations) : Begin(k)
    \/ \E k \in 1..Len(invocations) : UpdStatus(k)
    \/ \E k \in 1..Len(invocations) : UpdCompletedAt(k)
    \/ \E k \in 1..Len(invocations) : UpdFields(k)
    \/ \E k \in 1..Len(invocations) : Download(k)
    \/ \E k \in 1..Len(invocations) : WriteTmp(k)
    \/ \E k \in 1..Len(invocations) : StageStep(k)
    \/ \E k \in 1..Len(invocations) : Report(k)
    \/ \E k \in 1..Len(invocations) : Finally(k)
    \/ Tick

Spec == Init /\ [][Next]_vars

\* The registry, its three handlers and the workers of the registered tasks
\* alone: no process_batch, whose ids never enter tasks_storage.
NextRegistry ==
    \/ /\ Len(invocations) < MaxTasks
       /\ create_ocr_task
    \/ \E t \in QueryIds : get_task_status(t)
    \/ \E t \in QueryIds : cancel_task(t)
    \/ \E k \in 1..Len(invocations) : Begin(k)
    \/ \E k \in 1..Len(invocations) : UpdStatus(k)
    \/ \E k \in 1..Len(invocations) : UpdCompletedAt(k)
    \/ \E k \in 1..Len(invocations) : UpdFields(k)
    \/ \E k \in 1..Len(invocations) : Download(k)
    \/ \E k \in 1..Len(invocations) : WriteTmp(k)
    \/ \E k \in 1..Len(invocations) : StageStep(k)
    \/ \E k \in 1..Len(invocations) : Report(k)
    \/ \E k \in 1..Len(invocations) : Finally(k)
    \/ Tick

SpecRegistry == Init /\ [][NextRegistry]_vars


(***************************************************************************)
(*        app service: app/api/routes.py, app/storage/minio_client.py,     *)
(*                     src/workers/table_extractor.py                      *)
(***************************************************************************)

\* @shared_task(bind=True, max_retries=3)
MaxRetries == 3

\* countdown=60 * (self.request.retries + 1)
RetryBackoff == 60

\* Objects of the bucket a request may name: two share a base name.
Objects ==
    {[dir |-> "user_1", base |-> "a.jpg"],
     [dir |-> "user_2", base |-> "a.jpg"],
     [dir |-> "user_1", base |-> "b.jpg"]}

\* os.path.join('/tmp/ocr_processing', os.path.basename(file_path))
LocalPath(object) == object.base

\* The task_id the route generates (uuid4) and the id Celery gives the
\* message it sends: two different identifiers.
ApiTaskId(k) == [kind |-> "api", n |-> k]

CeleryId(k) == [kind |-> "celery", n |-> k]

\* What the pipeline may raise: a transient I/O failure of a collaborator,
\* or an input that cannot be decoded.
ExcKinds == {"transient", "decode"}

NewCeleryTask(k, path) ==
    [task_id |-> ApiTaskId(k), file_path |-> path, retries |-> 0,
     state |-> "PENDING", result |-> None, countdown |-> 0,
     pc |-> "queued", downloads |-> 1, attempts |-> << >>]

\* MinioClient.download_file: fget_object writes the object's bytes to
\* LocalPath(object), replacing whatever file is there.  A file is its mtime
\* and its content: the object, as downloaded for the k-th dispatched task.
FGetObject(files, object, k, t) ==
    [p \in DOMAIN files \cup {LocalPath(object)} |->
        IF p = LocalPath(object)
        THEN [mtime |-> t, object |-> object, task |-> k]
        ELSE files[p]]

\* POST /process: download_file(request.file_path), then
\* process_document_task.delay(task_id=..., file_path=local_file_path, ...);
\* any exception becomes a 500.
process_document(object) ==
    /\ Len(backend) < MaxAppTasks
    /\ \/ /\ local_files' = FGetObject(local_files, object, Len(backend) + 1, now)
          /\ backend' = Append(backend,
                               NewCeleryTask(Len(backend) + 1, LocalPath(object)))
          /\ app_resp' = [op |-> "process", code |-> 200, status |-> "processing"]
       \/ /\ app_resp' = [op |-> "process", code |-> 500, status |-> "none"]
          /\ UNCHANGED <<backend, local_files>>
    /\ UNCHANGED <<lib_vars, ocr_vars, now>>

\* A worker takes the message (first delivery or a retry); Celery records STARTED.
TaskStart(k) ==
    /\ backend[k].pc = "queued"
    /\ backend' = [backend EXCEPT ![k].pc = "running", ![k].state = "STARTED"]
    /\ UNCHANGED <<lib_vars, ocr_vars, now, local_files, app_resp>>

\* A faulty variant of the test below: it grants one retry more.
MayRetryMutant(retries) == retries <= MaxRetries

\* `if self.request.retries < self.max_retries`
MayRetry(retries) == retries < MaxRetries

\* The success path of process_document_task: the temporary file is removed
\* and the dict with status 'success' is the task's return value.
TaskSucceed(k) ==
    LET t == backend[k] IN
    /\ t.pc = "running"
    /\ t.file_path \in DOMAIN local_files
    /\ local_files' = [p \in DOMAIN local_files \ {t.file_path} |-> local_files[p]]
    /\ backend' = [backend EXCEPT
            ![k].pc = "done",
            ![k].state = "SUCCESS",
            ![k].result = Some([status |-> "success"]),
            ![k].attempts = Append(@, [path |-> t.file_path, exc |-> "none"])]
    /\ UNCHANGED <<lib_vars, ocr_vars, now, app_resp>>

\* The `except Exception as e` path: self.retry(exc=e, countdown=...) while
\* retries remain, whatever e is; after that the dict with status 'failed'
\* is RETURNED, so Celery records SUCCESS.  The file is left in place.
TaskFail(k) ==
    LET t == backend[k] IN
    /\ t.pc = "running"
    /\ \E exc \in ExcKinds :
        backend' = [backend EXCEPT ![k] =
            IF MayRetry(t.retries)
            THEN [t EXCEPT !.pc = "queued",
                           !.state = "RETRY",
                           !.result = Some([exc |-> exc]),
                           !.countdown = RetryBackoff * (t.retries + 1),
                           !.retries = t.retries + 1,
                           !.attempts = Append(@, [path |-> t.file_path, exc |-> exc])]
            ELSE [t EXCEPT !.pc = "done",
                           !.state = "SUCCESS",
                           !.result = Some([status |-> "failed", error |-> exc]),
                           !.attempts = Append(@, [path |-> t.file_path, exc |-> exc])]]
    /\ UNCHANGED <<lib_vars, ocr_vars, now, local_files, app_resp>>

\* AsyncResult(task_id).state: the backend's entry for that Celery id, and
\* PENDING for an id the backend does not know.
AsyncResultState(id) ==
    IF id.kind = "celery" /\ id.n \in 1..Len(backend)
    THEN backend[id.n].state
    ELSE "PENDING"

AsyncResultValue(id) ==
    IF id.kind = "celery" /\ id.n \in 1..Len(backend)
    THEN backend[id.n].result
    ELSE None

Lower(state) ==
    CASE state = "RETRY" -> "retry"
      [] state = "REVOKED" -> "revoked"
      [] OTHER -> state

\* GET /tasks/{task_id}: the TaskStatusResponse the handler builds.
TaskStatusResponse(id) ==
    LET state == AsyncResultState(id) IN
    CASE state = "PENDING" ->
            [status |-> "pending", progress |-> 0, result |-> None, error |-> None]
      [] state = "STARTED" ->
            [status |-> "processing", progress |-> 50, result |-> None, error |-> None]
      [] state = "SUCCESS" ->
            [status |-> "completed", progress |-> 100,
             result |-> AsyncResultValue(id), error |-> None]
      [] state = "FAILURE" ->
            [status |-> "failed", progress |-> 100, result |-> None,
             error |-> AsyncResultValue(id)]
      [] OTHER ->
            [status |-> Lower(state), progress |-> 0, result |-> None, error |-> None]

AppQueryIds ==
    {ApiTaskId(k) : k \in 1..Len(backend)} \cup {CeleryId(k) : k \in 1..Len(backend)}

app_get_task_status(id) ==
    /\ app_resp' = [op |-> "get_status", code |-> 200,
                    status |-> TaskStatusResponse(id).status]
    /\ UNCHANGED <<lib_vars, ocr_vars, now, backend, local_files>>

NextApp ==
    \/ \E object \in Objects : process_document(object)
    \/ \E k \in 1..Len(backend) : TaskStart(k)
    \/ \E k \in 1..Len(backend) : TaskSucceed(k)
    \/ \E k \in 1..Len(backend) : TaskFail(k)
    \/ \E id \in AppQueryIds : app_get_task_status(id)

SpecApp == Init /\ [][NextApp]_vars


(***************************************************************************)
(*                     Properties of the ocr-service                       *)
(***************************************************************************)

\* An invocation that a worker has taken and not finished.
Running(k) == invocations[k].pc \notin {"queued", "done", "raised"}

\* The invocation is inside update_task_status.
InUpdate(k) == invocations[k].pc \in {"upd_status", "upd_completed_at", "upd_fields"}

TerminalStatuses == {"completed", "failed", "cancelled"}

StatusRank(st) ==
    CASE st = "pending" -> 0
      [] st = "queued" -> 1
      [] st = "processing" -> 2
      [] OTHER -> 3

\* C1: for every task_id at most one pipeline invocation is in progress at
\* any time, whether the id came from a single or a batch submission.
C1_AtMostOneInvocationPerTask ==
    \A i, j \in 1..Len(invocations) :
        (i # j /\ invocations[i].task_id = invocations[j].task_id)
            => ~(Running(i) /\ Running(j))

\* C2: once cancel has set a task to cancelled, its queued or running
\* invocation enters no further pipeline stage and makes no further update of
\* the task's record.
C2_CancelStopsInvocation ==
    [][\A k \in 1..Len(invocations) :
          LET t == invocations[k].task_id IN
          (/\ t \in DOMAIN tasks_storage
           /\ tasks_storage[t].status = "cancelled"
           /\ invocations[k].pc \notin {"done", "raised"})
              => /\ invocations'[k].stage <= invocations[k].stage
                 /\ tasks_storage'[t] = tasks_storage[t]]_vars

\* C3: cancel on a completed or failed task answers 400 and leaves the
\* task's status, result, error_message and completed_at as they were.
C3_CancelRefusedOnFinished ==
    [][\A t \in DOMAIN tasks_storage :
          (cancel_task(t) /\ tasks_storage[t].status \in {"completed", "failed"})
              => /\ resp' = [op |-> "cancel", code |-> 400]
                 /\ tasks_storage' = tasks_storage]_vars

\* C3 happens: a cancel was answered 400 while a finished task, completed
\* with its result or failed with its message, sits in the registry.
C3_Witness ==
    /\ resp = [op |-> "cancel", code |-> 400]
    /\ \E t \in DOMAIN tasks_storage :
          /\ tasks_storage[t].status = "completed"
          /\ tasks_storage[t].result # None
          /\ tasks_storage[t].completed_at # None
    /\ \E k \in 1..Len(invocations) : invocations[k].pc = "done"

\* C4: a task's status only moves forward along pending, queued, processing,
\* terminal, and a terminal status never changes again.
C4_StatusOnlyMovesForward ==
    [][\A t \in DOMAIN tasks_storage :
          /\ StatusRank(tasks_storage'[t].status) >= StatusRank(tasks_storage[t].status)
          /\ tasks_storage[t].status \in TerminalStatuses
                => tasks_storage'[t].status = tasks_storage[t].status]_vars

\* C7: whatever a status query observes, a task reported completed carries
\* a result.
C7_CompletedHasResult ==
    \A t \in DOMAIN tasks_storage :
        LET r == StatusResponse(t) IN
        (r.code = 200 /\ r.body[1].status = "completed") => r.body[1].result # None

\* C8: a failed task (its update finished) has a non-empty error_message and
\* no result, whichever path made it fail.
C8_FailedHasMessageAndNoResult ==
    \A t \in DOMAIN tasks_storage :
        (/\ tasks_storage[t].status = "failed"
         /\ \A k \in 1..Len(invocations) :
               invocations[k].task_id = t => ~InUpdate(k))
            => /\ TruthyStr(tasks_storage[t].error_message)
               /\ tasks_storage[t].result = None

(***************************************************************************)
(*                     Properties of the app service                       *)
(***************************************************************************)

\* Every attempt of task k so far failed on a transient error.
AllTransient(k) ==
    \A i \in 1..Len(backend[k].attempts) : backend[k].attempts[i].exc = "transient"

\* C5: when every attempt failed on a transient error, after the third retry
\* the status query reports failed, with retry count 3 and an error message.
C5_ExhaustedRetriesReportFailed ==
    \A k \in 1..Len(backend) :
        (/\ backend[k].pc = "done"
         /\ Len(backend[k].attempts) = MaxRetries + 1
         /\ AllTransient(k))
            => \A id \in {backend[k].task_id, CeleryId(k)} :
                  /\ TaskStatusResponse(id).status = "failed"
                  /\ TaskStatusResponse(id).error # None
                  /\ backend[k].retries = MaxRetries

\* C6: once the worker has finished with a task, on any exit path, the
\* temporary file downloaded for that task is gone.
C6_TempFileReleased ==
    \A k \in 1..Len(backend) :
        backend[k].pc = "done"
            => ~(/\ backend[k].file_path \in DOMAIN local_files
                 /\ local_files[backend[k].file_path].task = k)

\* C9: every attempt runs on a download of its own and on a path no earlier
\* attempt of the task used.
C9_RetryUsesFreshDownload ==
    \A k \in 1..Len(backend) :
        backend[k].pc = "running"
            => /\ backend[k].downloads = Len(backend[k].attempts) + 1
               /\ \A i \in 1..Len(backend[k].attempts) :
                     backend[k].attempts[i].path # backend[k].file_path

\* C10: a task whose input cannot be decoded is finished by its first
\* attempt: no retry is scheduled for it.
C10_DecodeErrorNotRetried ==
    \A k \in 1..Len(backend) :
        (backend[k].attempts # << >> /\ backend[k].attempts[1].exc = "decode")
            => /\ backend[k].retries = 0
               /\ backend[k].pc = "done"

(***************************************************************************)
(*                 Properties of the ocr-service, continued                *)
(***************************************************************************)

\* The part of a registry record that GET /ocr/tasks/{task_id} returns.
RecordOf(task_id) ==
    LET task == tasks_storage[task_id] IN
    [status |-> task.status, result |-> task.result,
     error_message |-> task.error_message, created_at |-> task.created_at,
     completed_at |-> task.completed_at]

\* C11: get_status of a task_id that was never submitted answers 404 and
\* creates no task record; of a submitted task_id it answers 200 with that
\* task's current record.
C11_GetStatusReturnsRecordOr404 ==
    [][\A t \in QueryIds :
          get_task_status(t)
              => IF t \notin DOMAIN tasks_storage
                 THEN /\ resp' = [op |-> "get_status", code |-> 404]
                      /\ tasks_storage' = tasks_storage
                 ELSE /\ resp' = [op |-> "get_status", code |-> 200]
                      /\ StatusResponse(t).body = Some(RecordOf(t))]_vars

(***************************************************************************)
(*                    ocr-service: ocr/postprocess.py                      *)
(*                                                                         *)
(* A Python str is the sequence of its characters, each a one-character    *)
(* string, and re.sub is the left-to-right scan it performs: at every      *)
(* position the pattern is tried, a match is replaced and the scan goes on *)
(* behind it, so that text consumed by one match is not matched again.     *)
(***************************************************************************)

DigitChars == {"0", "1", "2", "3", "4", "5", "6", "7", "8", "9"}

LowerChars == {"a", "b", "c", "d", "g", "k", "l", "n", "o", "p", "r", "s", "t", "u"}

UpperChars == {"A", "G"}

\* [А-Яа-яA-Za-z]
LetterChars == LowerChars \cup UpperChars

\* \w
WordChars == LetterChars \cup DigitChars \cup {"_"}

\* \s
SpaceChars == {" ", "\n", "\t"}

\* [.,;:!?]
PunctChars == {".", ",", ";", ":", "!", "?"}

\* str.lower() of one character
LowerOf(c) == CASE c = "A" -> "a" [] c = "G" -> "g" [] OTHER -> c

RECURSIVE RunEnd(_, _, _)
\* The position behind the longest run of characters of cls that starts at i:
\* where a greedy cls+ or cls* tried at i stops.
RunEnd(s, i, cls) ==
    IF i <= Len(s) /\ s[i] \in cls THEN RunEnd(s, i + 1, cls) ELSE i

\* s[i:] of Python, 1-based.
Tail_(s, i) == SubSeq(s, i, Len(s))

\* Every character of s is in cls.
AllIn(s, cls) == \A i \in 1..Len(s) : s[i] \in cls

RECURSIVE FixHyphenationFrom(_, _)
\* re.sub(r'(\w+)-\s+(\w+)', r'\1\2', text), scanning from position i.
FixHyphenationFrom(s, i) ==
    IF i > Len(s) THEN << >>
    ELSE LET w1 == RunEnd(s, i, WordChars)
             hy == w1 <= Len(s) /\ s[w1] = "-"
             sp == IF hy THEN RunEnd(s, w1 + 1, SpaceChars) ELSE w1
             w2 == RunEnd(s, sp, WordChars)
         IN
         IF w1 > i /\ hy /\ sp > w1 + 1 /\ w2 > sp
         THEN SubSeq(s, i, w1 - 1) \o SubSeq(s, sp, w2 - 1)
                  \o FixHyphenationFrom(s, w2)
         ELSE <<s[i]>> \o FixHyphenationFrom(s, i + 1)

\* TextPostprocessor._fix_hyphenation
FixHyphenation(s) == FixHyphenationFrom(s, 1)

RECURSIVE SpaceBeforePunct(_, _)
\* re.sub(r'\s+([.,;:!?])', r'\1', text)
SpaceBeforePunct(s, i) ==
    IF i > Len(s) THEN << >>
    ELSE LET e == RunEnd(s, i, SpaceChars) IN
         IF e > i /\ e <= Len(s) /\ s[e] \in PunctChars
         THEN <<s[e]>> \o SpaceBeforePunct(s, e + 1)
         ELSE <<s[i]>> \o SpaceBeforePunct(s, i + 1)

RECURSIVE SpaceAfterPunct(_, _)
\* re.sub(r'([.,;:!?])([А-Яа-яA-Za-z])', r'\1 \2', text)
SpaceAfterPunct(s, i) ==
    IF i > Len(s) THEN << >>
    ELSE IF s[i] \in PunctChars /\ i < Len(s) /\ s[i + 1] \in LetterChars
         THEN <<s[i], " ", s[i + 1]>> \o SpaceAfterPunct(s, i + 2)
         ELSE <<s[i]>> \o SpaceAfterPunct(s, i + 1)

RECURSIVE SqueezeRuns(_, _, _, _)
\* re.sub of every run of at least `least` characters of cls by one " ".
SqueezeRuns(s, i, cls, least) ==
    IF i > Len(s) THEN << >>
    ELSE LET e == RunEnd(s, i, cls) IN
         IF e - i >= least
         THEN <<" ">> \o SqueezeRuns(s, e, cls, least)
         ELSE <<s[i]>> \o SqueezeRuns(s, i + 1, cls, least)

RECURSIVE LStrip(_)
LStrip(s) == IF s # << >> /\ s[1] \in SpaceChars THEN LStrip(Tail(s)) ELSE s

RECURSIVE RStrip(_)
RStrip(s) ==
    IF s # << >> /\ s[Len(s)] \in SpaceChars
    THEN RStrip(SubSeq(s, 1, Len(s) - 1)) ELSE s

\* str.strip()
Strip(s) == RStrip(LStrip(s))

\* TextPostprocessor._fix_spacing
FixSpacing(s) ==
    Strip(SqueezeRuns(SpaceAfterPunct(SpaceBeforePunct(s, 1), 1), 1, {" "}, 2))

\* TextPostprocessor._normalize_whitespace: re.sub(r'\s+', ' ', text).strip()
NormalizeWhitespace(s) == Strip(SqueezeRuns(s, 1, SpaceChars, 1))

\* s[i..i+n-1] exists and consists of digits: \d{n} at i.
DigitsAt(s, i, n) ==
    /\ i + n - 1 <= Len(s)
    /\ \A j \in i..(i + n - 1) : s[j] \in DigitChars

\* The character at position i is c.
CharAt(s, i, c) == i <= Len(s) /\ s[i] = c

RECURSIVE IsoToDotted(_, _)
\* re.sub(r'(\d{4})-(\d{2})-(\d{2})', r'\3.\2.\1', value)
IsoToDotted(s, i) ==
    IF i > Len(s) THEN << >>
    ELSE IF /\ DigitsAt(s, i, 4) /\ CharAt(s, i + 4, "-")
            /\ DigitsAt(s, i + 5, 2) /\ CharAt(s, i + 7, "-")
            /\ DigitsAt(s, i + 8, 2)
         THEN SubSeq(s, i + 8, i + 9) \o <<".">> \o SubSeq(s, i + 5, i + 6)
                  \o <<".">> \o SubSeq(s, i, i + 3) \o IsoToDotted(s, i + 10)
         ELSE <<s[i]>> \o IsoToDotted(s, i + 1)

RECURSIVE SlashedToDotted(_, _)
\* re.sub(r'(\d{2})/(\d{2})/(\d{4})', r'\1.\2.\3', value)
SlashedToDotted(s, i) ==
    IF i > Len(s) THEN << >>
    ELSE IF /\ DigitsAt(s, i, 2) /\ CharAt(s, i + 2, "/")
            /\ DigitsAt(s, i + 3, 2) /\ CharAt(s, i + 5, "/")
            /\ DigitsAt(s, i + 6, 4)
         THEN SubSeq(s, i, i + 1) \o <<".">> \o SubSeq(s, i + 3, i + 4)
                  \o <<".">> \o SubSeq(s, i + 6, i + 9) \o SlashedToDotted(s, i + 10)
         ELSE <<s[i]>> \o SlashedToDotted(s, i + 1)

\* TextPostprocessor._format_date: the two patterns of date_patterns in turn.
FormatDate(s) == SlashedToDotted(IsoToDotted(s, 1), 1)

\* re.sub(r'\D', '', value)
OnlyDigits(s) == SelectSeq(s, LAMBDA c : c \in DigitChars)

\* TextPostprocessor._format_inn
FormatInn(s) ==
    LET digits == OnlyDigits(s) IN
    IF Len(digits) = 10
    THEN SubSeq(digits, 1, 4) \o <<" ">> \o Tail_(digits, 5) \o <<" ">>
             \o Tail_(digits, 7)
    ELSE IF Len(digits) = 12
    THEN SubSeq(digits, 1, 4) \o <<" ">> \o Tail_(digits, 5) \o <<" ">>
             \o SubSeq(digits, 7, 10) \o <<" ">> \o Tail_(digits, 11)
    ELSE s

\* TextPostprocessor._format_phone
FormatPhone(s) ==
    LET all == OnlyDigits(s)
        digits == IF Len(all) = 11 /\ all[1] = "7" THEN Tail(all) ELSE all
    IN
    IF Len(digits) = 10
    THEN <<"+", "7", " ", "(">> \o SubSeq(digits, 1, 3) \o <<")", " ">>
             \o SubSeq(digits, 4, 6) \o <<"-">> \o SubSeq(digits, 7, 8)
             \o <<"-">> \o SubSeq(digits, 9, 10)
    ELSE s

\* TextPostprocessor._format_email: value.lower().strip()
FormatEmail(s) == Strip([i \in 1..Len(s) |-> LowerOf(s[i])])

RECURSIVE DropLeadingZeros(_)
\* The digits of int(value): no leading zero but the last digit's.
DropLeadingZeros(s) ==
    IF Len(s) > 1 /\ s[1] = "0" THEN DropLeadingZeros(Tail(s)) ELSE s

RECURSIVE GroupThousands(_)
\* '{:,}'.format(n).replace(',', ' ')
GroupThousands(s) ==
    IF Len(s) <= 3 THEN s
    ELSE GroupThousands(SubSeq(s, 1, Len(s) - 3)) \o <<" ">>
             \o SubSeq(s, Len(s) - 2, Len(s))

\* TextPostprocessor._format_number.  re.match(r'^\d+$') also accepts one
\* trailing newline, which int() ignores.
FormatNumber(s) ==
    LET value == SelectSeq(s, LAMBDA c : c # " ")
        body == IF value # << >> /\ value[Len(value)] = "\n"
                THEN SubSeq(value, 1, Len(value) - 1) ELSE value
    IN
    IF body # << >> /\ AllIn(body, DigitChars)
    THEN GroupThousands(DropLeadingZeros(body))
    ELSE value

\* The abbreviations _format_address standardises, in the order of its dict,
\* Cyrillic letters written in Latin: г, обл, ул, д, корп, стр take a dot.
AddressAbbrevs ==
    << <<"g">>, <<"o", "b", "l">>, <<"r", "-", "n">>, <<"u", "l">>, <<"d">>,
       <<"k", "o", "r", "p">>, <<"s", "t", "r">> >>

\* \b at position i: exactly one of s[i-1], s[i] is a word character.
WordBoundary(s, i) ==
    (i > 1 /\ s[i - 1] \in WordChars) # (i <= Len(s) /\ s[i] \in WordChars)

\* s[i..] starts with abbr, letter case ignored.
StartsWithAt(s, i, abbr) ==
    /\ i + Len(abbr) - 1 <= Len(s)
    /\ \A j \in 1..Len(abbr) : LowerOf(s[i + j - 1]) = abbr[j]

RECURSIVE SubAbbrev(_, _, _)
\* re.sub(r'\b<abbr>\.\s*', '<abbr>. ', value, flags=re.IGNORECASE), and for
\* р-н re.sub(r'\bр-н\b', 'р-н', ...).
SubAbbrev(s, i, abbr) ==
    IF i > Len(s) THEN << >>
    ELSE LET e == i + Len(abbr) IN
         IF abbr = <<"r", "-", "n">>
         THEN IF WordBoundary(s, i) /\ StartsWithAt(s, i, abbr) /\ WordBoundary(s, e)
              THEN abbr \o SubAbbrev(s, e, abbr)
              ELSE <<s[i]>> \o SubAbbrev(s, i + 1, abbr)
         ELSE IF WordBoundary(s, i) /\ StartsWithAt(s, i, abbr) /\ CharAt(s, e, ".")
              THEN abbr \o <<".", " ">>
                       \o SubAbbrev(s, RunEnd(s, e + 1, SpaceChars), abbr)
              ELSE <<s[i]>> \o SubAbbrev(s, i + 1, abbr)

RECURSIVE FormatAddressFrom(_, _)
\* The loop of _format_address over replacements.items(), from the n-th on.
FormatAddressFrom(s, n) ==
    IF n > Len(AddressAbbrevs) THEN s
    ELSE FormatAddressFrom(SubAbbrev(s, 1, AddressAbbrevs[n]), n + 1)

\* TextPostprocessor._format_address
FormatAddress(s) == FormatAddressFrom(s, 1)

\* TextPostprocessor._format_by_type: formatters.get(field_type)
FormatByType(s, field_type) ==
    CASE field_type = "date" -> FormatDate(s)
      [] field_type = "inn" -> FormatInn(s)
      [] field_type = "phone" -> FormatPhone(s)
      [] field_type = "email" -> FormatEmail(s)
      [] field_type = "number" -> FormatNumber(s)
      [] field_type = "address" -> FormatAddress(s)
      [] OTHER -> s

\* TextPostprocessor._process_field with the constructor's defaults
\* (fix_spacing, fix_hyphenation and normalize_whitespace all True).  Field
\* values are strings, so the isinstance test passes whenever a value is there.
ProcessField(field) ==
    IF "value" \in DOMAIN field
    THEN [field EXCEPT !.value =
             FormatByType(NormalizeWhitespace(FixSpacing(FixHyphenation(@))),
                          DictGet(field, "type", "text"))]
    ELSE field

(***************************************************************************)
(* The postprocessor on its own: a field is drawn, _process_field is       *)
(* applied to it and then to its own output.                               *)
(***************************************************************************)
MaxValueLen == 7         \* characters of a drawn field value

\* The types _get_field_type gives that have a formatter, and "text".
FieldTypes == {"text", "date", "inn", "phone", "email", "number", "address"}

\* All strings of at most n characters of alphabet.
StringsUpTo(alphabet, n) == UNION {[1..k -> alphabet] : k \in 0..n}

\* A date in each written form parse_date_from_text knows.
Dotted(d, m, y) == d \o <<".">> \o m \o <<".">> \o y
Slashed(d, m, y) == d \o <<"/">> \o m \o <<"/">> \o y
Iso(d, m, y) == y \o <<"-">> \o m \o <<"-">> \o d
Dashed(d, m, y) == d \o <<"-">> \o m \o <<"-">> \o y

SampleDays == {<<"0", "1">>, <<"3", "1">>}
SampleMonths == {<<"0", "2">>, <<"1", "2">>}
SampleYears == {<<"2", "0", "2", "4">>}

WrittenDates ==
    UNION {{Dotted(d, m, y), Slashed(d, m, y), Iso(d, m, y), Dashed(d, m, y)} :
              <<d, m, y>> \in SampleDays \X SampleMonths \X SampleYears}

\* Values that reach the inn, phone, number, email and address formatters.
SampleValues ==
    { <<"7", "7", "0", "7", "0", "8", "3", "8", "9", "3">>,
      <<"5", "0", "0", "1", "0", "0", "7", "3", "2", "2", "5", "9">>,
      <<"8", "9", "1", "6", "1", "2", "3", "4", "5", "6", "7">>,
      <<"7", "9", "1", "6", "1", "2", "3", "4", "5", "6", "7">>,
      <<"0", "1", "2", "3", "4", "5", "6">>,
      <<"1", " ", "0", "0", "0">>,
      <<" ", "A", "a", " ", ",", "b">>,
      <<"G", ".", "a", " ", "u", "l", ".", " ", " ", "b">>,
      <<"a", " ", "r", "-", "n", "\n", "d", ".", "1">> }

NormValues ==
    StringsUpTo({"a", "-", " "}, MaxValueLen) \cup WrittenDates \cup SampleValues

NormCall(value, field_type) ==
    [pc |-> "input",
     field |-> [name |-> field_type, value |-> value, type |-> field_type],
     once |-> << >>, twice |-> << >>]

InitNormalize ==
    /\ ServicesInit
    /\ pipe = PipeIdle
    /\ ExtIdle
    /\ norm \in {NormCall(v, t) : v \in NormValues, t \in FieldTypes}

\* processed = postprocessor._process_field(field)
NormalizeOnce ==
    /\ norm.pc = "input"
    /\ norm' = [norm EXCEPT !.pc = "once", !.once = ProcessField(norm.field).value]
    /\ UNCHANGED <<ocr_vars, now, app_vars, pipe, ext_vars>>

\* postprocessor._process_field(processed)
NormalizeTwice ==
    /\ norm.pc = "once"
    /\ norm' = [norm EXCEPT
           !.pc = "twice",
           !.twice = ProcessField([norm.field EXCEPT !.value = norm.once]).value]
    /\ UNCHANGED <<ocr_vars, now, app_vars, pipe, ext_vars>>

NextNormalize ==
    \/ NormalizeOnce
    \/ NormalizeTwice

SpecNormalize == InitNormalize /\ [][NextNormalize]_vars

(***************************************************************************)
(*                     Properties of the postprocessor                     *)
(***************************************************************************)

\* C15: normalization of a field is idempotent for every field type: the
\* per-field transform applied to its own output returns that output.
C15_NormalizationIdempotent ==
    norm.pc = "twice" => norm.twice = norm.once

\* The value is DD.MM.YYYY: two digits, a dot, two digits, a dot, four digits.
IsDottedDate(s) ==
    /\ Len(s) = 10
    /\ DigitsAt(s, 1, 2) /\ s[3] = "." /\ DigitsAt(s, 4, 2) /\ s[6] = "."
    /\ DigitsAt(s, 7, 4)

\* C16: a field of type date whose source text is a date in one of the
\* written forms DD.MM.YYYY, DD/MM/YYYY, YYYY-MM-DD, DD-MM-YYYY has a
\* normalized value of the form DD.MM.YYYY.
C16_DateNormalizedToDotted ==
    (/\ norm.pc \in {"once", "twice"}
     /\ norm.field.type = "date"
     /\ norm.field.value \in WrittenDates)
        => IsDottedDate(norm.once)

(***************************************************************************)
(*   ocr-service: ocr/pipeline.py with ocr/text_detection.py and           *)
(*   ocr/layoutlm_extractor.py: one call of OCRPipeline.process            *)
(***************************************************************************)
MaxSpans == 2            \* lines the OCR engine returns for one image

\* Texts the engine reads, with the confidence it gives each.
DateToken == <<"0", "1", "-", "1", "2", "-", "2", "0", "2", "4">>

WordToken == <<"a", "b">>

Spans ==
    { [text |-> WordToken, confidence |-> 90],
      [text |-> DateToken, confidence |-> 50] }

\* What one call self.ocr.ocr(image, cls=True) does: it throws, or returns
\* its lines; no lines stand for a result that is None, [] or [None].
EngineThrows == [kind |-> "throws", lines |-> << >>]

EngineReturns(lines) == [kind |-> "result", lines |-> lines]

EngineOutcomes(most) ==
    {EngineThrows}
        \cup {EngineReturns(l) : l \in UNION {[1..n -> Spans] : n \in 0..most}}

\* `cropped.size == 0: continue`: the region is skipped with no engine call.
EmptyCrop == [kind |-> "skip", lines |-> << >>]

\* What a callee hands back to OCRPipeline.process: a value or an exception.
Returned(value) == [raised |-> FALSE, value |-> value, error |-> ""]

Raised(msg) == [raised |-> TRUE, value |-> << >>, error |-> msg]

\* ImagePreprocessor.preprocess(image_path, enhance=True): cv2.imread gives
\* None for a file it cannot decode and _remove_borders raises on None.
PreprocessCall(image) ==
    IF image = "readable" THEN Returned(image) ELSE Raised("cv2.error")

\* TextDetector.detect: every failure of the engine is caught.
DetectCall(outcome) ==
    IF outcome.kind = "throws" THEN Returned(<< >>) ELSE Returned(outcome.lines)

RECURSIVE RecognizeRegions(_, _)
\* The loop of TextDetector.recognize over the regions, outs[i] being what
\* happens at region i; an exception of the engine leaves the loop.
RecognizeRegions(outs, i) ==
    IF i > Len(outs) THEN Returned(<< >>)
    ELSE IF outs[i].kind = "throws" THEN Raised("engine error")
    ELSE LET rest == RecognizeRegions(outs, i + 1) IN
         IF rest.raised THEN rest ELSE Returned(outs[i].lines \o rest.value)

\* TextDetector.recognize(image, regions): with no regions one engine call
\* on the whole image (outs has one entry), else one call per region.
\* Neither call is inside a try block.
RecognizeCall(regions, outs) ==
    IF regions = << >>
    THEN IF outs[1].kind = "throws" THEN Raised("engine error")
         ELSE Returned(outs[1].lines)
    ELSE RecognizeRegions(outs, 1)

\* The outcomes recognize may meet for these regions.
RecognizeOutcomes(regions) ==
    IF regions = << >>
    THEN [1..1 -> EngineOutcomes(MaxSpans)]
    ELSE [1..Len(regions) -> EngineOutcomes(1) \cup {EmptyCrop}]

RECURSIVE JoinWith(_, _)
\* sep.join(parts)
JoinWith(parts, sep) ==
    IF parts = << >> THEN << >>
    ELSE IF Len(parts) = 1 THEN parts[1]
    ELSE parts[1] \o sep \o JoinWith(Tail(parts), sep)

\* [t["text"] for t in recognized_texts]
TextsOf(texts) == [i \in 1..Len(texts) |-> texts[i].text]

\* Labels of the model: B-<name>, I-<name>, and O.
Label(tag, name) == [tag |-> tag, name |-> name]

Labels ==
    { Label("B", "date"), Label("I", "date"), Label("B", "total"),
      Label("B", ""), Label("O", "") }

\* LayoutLMExtractor._get_field_type
GetFieldType(field_name) ==
    CASE field_name = "date" -> "date"
      [] field_name = "time" -> "time"
      [] field_name \in {"amount", "total"} -> "number"
      [] field_name = "address" -> "address"
      [] field_name = "inn" -> "inn"
      [] field_name = "kpp" -> "kpp"
      [] field_name = "phone" -> "phone"
      [] field_name = "email" -> "email"
      [] field_name = "vin" -> "vin"
      [] field_name = "license" -> "license_plate"
      [] OTHER -> "text"

\* fields.append({"name": ..., "value": " ".join(current_value), "type": ...})
\* under `if current_field:`.
CloseField(fields, current_field, current_value) ==
    IF TruthyStr(current_field)
    THEN Append(fields, [name |-> current_field[1],
                         value |-> JoinWith(current_value, <<" ">>),
                         type |-> GetFieldType(current_field[1])])
    ELSE fields

RECURSIVE DecodeLabels(_, _, _, _, _, _)
\* The loop of _extract_with_model over zip(words, predicted_labels) from
\* position i, and the closing of the last field behind it.
DecodeLabels(words, labels, i, current_field, current_value, fields) ==
    IF i > Len(words) \/ i > Len(labels)
    THEN CloseField(fields, current_field, current_value)
    ELSE IF labels[i].tag = "B"
    THEN DecodeLabels(words, labels, i + 1, Some(labels[i].name), <<words[i]>>,
                      CloseField(fields, current_field, current_value))
    ELSE IF labels[i].tag = "I" /\ TruthyStr(current_field)
    THEN DecodeLabels(words, labels, i + 1, current_field,
                      Append(current_value, words[i]), fields)
    ELSE DecodeLabels(words, labels, i + 1, None, << >>,
                      CloseField(fields, current_field, current_value))

\* LayoutLMExtractor._extract_with_model: the tokenizer or the model raises,
\* or the predicted labels are decoded.
ModelThrows == [kind |-> "throws", labels |-> << >>]

ModelOutcomes(texts) ==
    {ModelThrows} \cup {[kind |-> "labels", labels |-> l] : l \in [1..Len(texts) -> Labels]}

ExtractWithModel(texts, outcome) ==
    IF outcome.kind = "throws" THEN Raised("model error")
    ELSE Returned(DecodeLabels(TextsOf(texts), outcome.labels, 1, None, << >>, << >>))

\* The functions shared/utils.py defines.
SharedUtilsNames ==
    { "generate_document_id", "calculate_file_hash", "sanitize_filename",
      "parse_date_from_text", "extract_inn", "extract_vin",
      "extract_license_plate", "get_confidence_level", "format_confidence",
      "merge_dict_values", "validate_required_fields", "truncate_text" }

\* The names `from shared.utils import (...)` of _extract_by_rules asks for.
RuleImports ==
    {"extract_date_from_text", "extract_inn", "extract_vin", "extract_license_plate"}

\* re.search(r'\b[cls]{n}\b', s) for the lengths n of lens, as the
\* alternatives of one pattern: the leftmost match, length 0 if there is none.
SearchRuns(s, cls, lens) ==
    LET hits == {h \in (1..Len(s)) \X lens :
                    /\ h[1] + h[2] - 1 <= Len(s)
                    /\ \A j \in h[1]..(h[1] + h[2] - 1) : s[j] \in cls
                    /\ WordBoundary(s, h[1])
                    /\ WordBoundary(s, h[1] + h[2])}
    IN IF hits = {} THEN [at |-> 0, len |-> 0]
       ELSE LET h == CHOOSE x \in hits : \A y \in hits : x[1] <= y[1]
            IN [at |-> h[1], len |-> h[2]]

\* The text a search found.
Found(s, m) == SubSeq(s, m.at, m.at + m.len - 1)

\* The date patterns of parse_date_from_text, in its order: the digits
\* before the first separator, the separator, the digits behind the second;
\* the strptime format that reads a match is the one of the same shape.
DatePatterns ==
    << [a |-> 2, sep |-> ".", c |-> 4], [a |-> 2, sep |-> "/", c |-> 4],
       [a |-> 4, sep |-> "-", c |-> 2], [a |-> 2, sep |-> "-", c |-> 4] >>

\* s[i..] has the shape \d{a} sep \d{2} sep \d{c}.
DateShapeAt(s, i, pat) ==
    /\ DigitsAt(s, i, pat.a) /\ CharAt(s, i + pat.a, pat.sep)
    /\ DigitsAt(s, i + pat.a + 1, 2) /\ CharAt(s, i + pat.a + 3, pat.sep)
    /\ DigitsAt(s, i + pat.a + 4, pat.c)

\* re.search of one date pattern: the first position it matches at, 0 if none.
SearchDate(s, pat) ==
    LET hits == {i \in 1..Len(s) : DateShapeAt(s, i, pat)}
    IN IF hits = {} THEN 0 ELSE CHOOSE i \in hits : \A j \in hits : i <= j

DigitSeq == <<"0", "1", "2", "3", "4", "5", "6", "7", "8", "9">>

DigitValue(c) == (CHOOSE k \in 1..10 : DigitSeq[k] = c) - 1

RECURSIVE IntOf(_)
\* int(s) of a string of digits
IntOf(s) ==
    IF s = << >> THEN 0
    ELSE 10 * IntOf(SubSeq(s, 1, Len(s) - 1)) + DigitValue(s[Len(s)])

DaysInMonth(m, y) ==
    IF m \in {4, 6, 9, 11} THEN 30
    ELSE IF m # 2 THEN 31
    ELSE IF (y % 4 = 0 /\ y % 100 # 0) \/ y % 400 = 0 THEN 29 ELSE 28

\* datetime.strptime accepts the day, month and year: a date of the calendar.
ValidDate(d, m, y) ==
    /\ y >= 1
    /\ m \in 1..12
    /\ d \in 1..DaysInMonth(m, y)

\* The day, month and year of the match of pat at position i.
DateAt(s, i, pat) ==
    IF pat.a = 2
    THEN [day |-> SubSeq(s, i, i + 1), month |-> SubSeq(s, i + 3, i + 4),
          year |-> SubSeq(s, i + 6, i + 9)]
    ELSE [day |-> SubSeq(s, i + 8, i + 9), month |-> SubSeq(s, i + 5, i + 6),
          year |-> SubSeq(s, i, i + 3)]

\* datetime.strptime(date_str, fmt) of the match at i, 0 standing for no
\* match: None when there is none or ValueError was raised.
Strptime(s, i, pat) ==
    IF i = 0 THEN None
    ELSE IF ValidDate(IntOf(DateAt(s, i, pat).day), IntOf(DateAt(s, i, pat).month),
                      IntOf(DateAt(s, i, pat).year))
    THEN Some(DateAt(s, i, pat))
    ELSE None

\* The match of one pattern read by strptime.
DateByPattern(s, pat) == Strptime(s, SearchDate(s, pat), pat)

RECURSIVE ParseDateFrom(_, _)
\* `for pattern in date_patterns:` from the n-th pattern on.
ParseDateFrom(s, n) ==
    IF n > Len(DatePatterns) THEN None
    ELSE LET date == DateByPattern(s, DatePatterns[n]) IN
         IF date # None THEN date ELSE ParseDateFrom(s, n + 1)

\* shared.utils.parse_date_from_text
ParseDateFromText(s) == ParseDateFrom(s, 1)

\* date.strftime("%d.%m.%Y"): glibc writes the year without leading zeros.
Strftime(date) == Dotted(date.day, date.month, DropLeadingZeros(date.year))

RECURSIVE DatesOf(_)
\* `for text in recognized_texts: date = ...; if date: dates.append(...)`
DatesOf(texts) ==
    IF texts = << >> THEN << >>
    ELSE LET date == ParseDateFromText(texts[1].text) IN
         (IF date # None
          THEN << [value |-> Strftime(date[1]),
                   confidence |-> texts[1].confidence] >>
          ELSE << >>) \o DatesOf(Tail(texts))

\* [A-HJ-NPR-Z0-9] among the modelled characters.
VinChars == {"A", "G"} \cup DigitChars

\* [АВЕКМНОРСТУХ] among the modelled characters.
PlateLetters == {"A"}

\* re.search(r'\b[АВЕКМНОРСТУХ]\d{3}[АВЕКМНОРСТУХ]{2}\d{2,3}\b', s): the
\* leftmost match, the longer one first; length 0 if there is none.
SearchPlate(s) ==
    LET hits == {h \in (1..Len(s)) \X {8, 9} :
                    /\ h[1] + h[2] - 1 <= Len(s)
                    /\ WordBoundary(s, h[1])
                    /\ s[h[1]] \in PlateLetters
                    /\ \A j \in 1..3 : s[h[1] + j] \in DigitChars
                    /\ \A j \in 4..5 : s[h[1] + j] \in PlateLetters
                    /\ \A j \in 6..(h[2] - 1) : s[h[1] + j] \in DigitChars
                    /\ WordBoundary(s, h[1] + h[2])}
    IN IF hits = {} THEN [at |-> 0, len |-> 0]
       ELSE LET h == CHOOSE x \in hits : \A y \in hits : x[1] <= y[1]
            IN [at |-> h[1], len |-> h[2]]

\* The field _extract_by_rules appends under `if <found>:`.
RuleField(found, name, value, confidence) ==
    IF found
    THEN << [name |-> name, value |-> value, type |-> name,
             confidence |-> confidence] >>
    ELSE << >>

\* The body of _extract_by_rules behind its import: a field is appended for
\* each of date, inn, vin, license_plate that is found, none for the others.
RuleFields(texts) ==
    LET full_text == JoinWith(TextsOf(texts), <<" ">>)
        dates == DatesOf(texts) \o << [value |-> << >>, confidence |-> 0] >>
        found == [name \in {"inn", "vin"} |->
                     SearchRuns(full_text,
                                IF name = "inn" THEN DigitChars ELSE VinChars,
                                IF name = "inn" THEN {10, 12} ELSE {17})]
        plate == SearchPlate(full_text)
    IN
    RuleField(Len(dates) > 1, "date", dates[1].value, dates[1].confidence)
    \o RuleField(found.inn.len # 0, "inn", Found(full_text, found.inn), 90)
    \o RuleField(found.vin.len # 0, "vin", Found(full_text, found.vin), 90)
    \o RuleField(plate.len # 0, "license_plate", Found(full_text, plate), 90)

\* LayoutLMExtractor._extract_by_rules: the import statement comes first and
\* raises ImportError when shared.utils lacks one of the names.
ExtractByRules(texts) ==
    IF RuleImports \subseteq SharedUtilsNames
    THEN Returned(RuleFields(texts))
    ELSE Raised("ImportError")

\* LayoutLMExtractor.extract, self.model being None when loading it failed.
ExtractCall(model, texts, outcome) ==
    IF texts = << >> THEN Returned(<< >>)
    ELSE IF model = "none" THEN ExtractByRules(texts)
    ELSE LET fields == ExtractWithModel(texts, outcome) IN
         IF fields.raised THEN ExtractByRules(texts) ELSE fields

\* TextPostprocessor.process: _process_field over the fields.
PostprocessCall(fields) ==
    Returned([i \in 1..Len(fields) |-> ProcessField(fields[i])])

\* The dict OCRPipeline.process returns when no stage raised.
ProcessCompleted(final_fields, recognized_texts) ==
    [status |-> "completed", fields |-> final_fields,
     raw_text |-> JoinWith(TextsOf(recognized_texts), <<"\n">>),
     processing_time |-> 0]

NewPipelineCall(image, model) ==
    [pc |-> "preprocess", image |-> image, model |-> model,
     text_regions |-> << >>, recognized_texts |-> << >>,
     extracted_fields |-> << >>, result |-> None, raised_in |-> "none",
     engine |-> "none", strategy |-> "none"]

InitPipeline ==
    /\ ServicesInit
    /\ norm = NormIdle
    /\ ExtIdle
    /\ pipe \in {NewPipelineCall(image, model) :
                    image \in {"readable", "unreadable"},
                    model \in {"loaded", "none"}}

\* A faulty variant of the handler below: it notes the exception and lets the
\* call go on from where it was.
PipelineExceptMutant(p, stage, msg) ==
    [p EXCEPT !.raised_in = stage]

\* `except Exception as e: return {"status": "failed", "error": str(e), ...}`;
\* raised_in keeps the stage the exception came from.
PipelineExcept(p, stage, msg) ==
    [p EXCEPT !.pc = "returned", !.result = Some(FailedResult(msg)),
              !.raised_in = stage]

\* What the engine did in one call of the adapter, kept for the record: it
\* threw in some call, or gave no line in any call, or gave lines.
EngineDid(outs) ==
    IF \E i \in DOMAIN outs : outs[i].kind = "throws" THEN "threw"
    ELSE IF \A i \in DOMAIN outs : outs[i].lines = << >> THEN "empty"
    ELSE "lines"

\* The strategy whose fields extract hands back, kept for the record.
StrategyUsed(model, texts, outcome) ==
    IF texts = << >> THEN "none"
    ELSE IF model = "none" \/ outcome.kind = "throws" THEN "rules"
    ELSE "model"

\* Stage 1: self.preprocessor.preprocess(image_path, enhance=...)
Preprocess ==
    /\ pipe.pc = "preprocess"
    /\ LET r == PreprocessCall(pipe.image) IN
        pipe' = IF r.raised THEN PipelineExcept(pipe, "preprocess", r.error)
                ELSE [pipe EXCEPT !.pc = "detect"]
    /\ UNCHANGED <<ocr_vars, now, app_vars, norm, ext_vars>>

\* Stage 2: self.text_detector.detect(preprocessed_image)
Detect ==
    /\ pipe.pc = "detect"
    /\ \E outcome \in EngineOutcomes(MaxSpans) :
          LET r == DetectCall(outcome) IN
          pipe' = [(IF r.raised THEN PipelineExcept(pipe, "detect", r.error)
                    ELSE [pipe EXCEPT !.pc = "recognize", !.text_regions = r.value])
                      EXCEPT !.engine = EngineDid(<<outcome>>)]
    /\ UNCHANGED <<ocr_vars, now, app_vars, norm, ext_vars>>

\* Stage 3: self.text_detector.recognize(preprocessed_image, text_regions, ...)
Recognize ==
    /\ pipe.pc = "recognize"
    /\ \E outs \in RecognizeOutcomes(pipe.text_regions) :
          LET r == RecognizeCall(pipe.text_regions, outs) IN
          pipe' = [(IF r.raised THEN PipelineExcept(pipe, "recognize", r.error)
                    ELSE [pipe EXCEPT !.pc = "extract",
                                      !.recognized_texts = r.value])
                      EXCEPT !.engine = EngineDid(outs)]
    /\ UNCHANGED <<ocr_vars, now, app_vars, norm, ext_vars>>

\* Stage 4: self.layoutlm_extractor.extract(image, recognized_texts, text_regions)
Extract ==
    /\ pipe.pc = "extract"
    /\ \E outcome \in ModelOutcomes(pipe.recognized_texts) :
          LET r == ExtractCall(pipe.model, pipe.recognized_texts, outcome) IN
          pipe' = [(IF r.raised THEN PipelineExcept(pipe, "extract", r.error)
                    ELSE [pipe EXCEPT !.pc = "postprocess",
                                      !.extracted_fields = r.value])
                      EXCEPT !.strategy = StrategyUsed(pipe.model,
                                                       pipe.recognized_texts,
                                                       outcome)]
    /\ UNCHANGED <<ocr_vars, now, app_vars, norm, ext_vars>>

\* Stage 5: self.postprocessor.process(extracted_fields, recognized_texts),
\* then the completed result is built and returned.
Postprocess ==
    /\ pipe.pc = "postprocess"
    /\ LET r == PostprocessCall(pipe.extracted_fields) IN
        pipe' = IF r.raised THEN PipelineExcept(pipe, "postprocess", r.error)
                ELSE [pipe EXCEPT
                         !.pc = "returned",
                         !.result = Some(ProcessCompleted(r.value,
                                                          pipe.recognized_texts))]
    /\ UNCHANGED <<ocr_vars, now, app_vars, norm, ext_vars>>

NextPipeline ==
    \/ Preprocess
    \/ Detect
    \/ Recognize
    \/ Extract
    \/ Postprocess

SpecPipeline == InitPipeline /\ [][NextPipeline]_vars

(***************************************************************************)
(*                       Properties of the pipeline                        *)
(***************************************************************************)

\* The call has returned and `stage` is where its exception came from.
FailedIn(stage) == pipe.pc = "returned" /\ pipe.raised_in = stage

\* Some entry of the result dict is the name of the stage.
NamesStage(result, stage) ==
    \E key \in DOMAIN result \ {"processing_time"} : result[key] = stage

\* C12: when a stage raises, process returns a result with status failed
\* that names the failing stage and carries the error message, and that has
\* no fields and no raw text of the stages before.
C12_FailedResultNamesStage ==
    \A i \in 1..NumStages :
        FailedIn(Stages[i])
            => /\ pipe.result # None
               /\ DictGet(pipe.result[1], "status", "") = "failed"
               /\ "error" \in DOMAIN pipe.result[1]
               /\ NamesStage(pipe.result[1], Stages[i])
               /\ "fields" \notin DOMAIN pipe.result[1]
               /\ "raw_text" \notin DOMAIN pipe.result[1]

\* Recognition has handed back its texts and the call went on to its end.
RecognizedAndReturned ==
    /\ pipe.pc = "returned"
    /\ pipe.raised_in \notin {"preprocess", "detect", "recognize"}

\* C13: when recognition yields no text spans for a readable image, process
\* returns status completed with an empty field list and document-level
\* confidence 0.0, and not failed.
C13_NoTextIsCompletedEmpty ==
    (RecognizedAndReturned /\ pipe.image = "readable"
         /\ pipe.recognized_texts = << >>)
        => /\ DictGet(pipe.result[1], "status", "") = "completed"
           /\ DictGet(pipe.result[1], "fields", <<"absent">>) = << >>
           /\ "confidence" \in DOMAIN pipe.result[1]
           /\ pipe.result[1].confidence = 0

RECURSIVE SumConfidence(_)
\* The sum of the confidences of the fields, in hundredths.
SumConfidence(fields) ==
    IF fields = << >> THEN 0
    ELSE DictGet(fields[1], "confidence", 0) + SumConfidence(Tail(fields))

\* C14: every completed result carries a document-level confidence that is
\* the arithmetic mean of the confidences of its fields, and 0.0 when it has
\* no fields.
C14_ConfidenceIsMeanOfFields ==
    (pipe.pc = "returned" /\ pipe.result[1].status = "completed")
        => /\ "confidence" \in DOMAIN pipe.result[1]
           /\ \A i \in 1..Len(pipe.result[1].fields) :
                 "confidence" \in DOMAIN pipe.result[1].fields[i]
           /\ pipe.result[1].confidence * Len(pipe.result[1].fields)
                  = SumConfidence(pipe.result[1].fields)
           /\ pipe.result[1].fields = << >> => pipe.result[1].confidence = 0

\* extract has been called and took the rule-based strategy.
RulesTaken ==
    /\ pipe.pc \in {"postprocess", "returned"}
    /\ pipe.strategy = "rules"

\* C17: whenever the model-based strategy raises or is unavailable, extract
\* returns the rule-based strategy's fields and raises nothing, and the
\* pipeline result is completed, not failed.
C17_FallbackToRulesNeverRaises ==
    RulesTaken
        => /\ pipe.raised_in = "none"
           /\ pipe.extracted_fields = RuleFields(pipe.recognized_texts)
           /\ pipe.pc = "returned" => pipe.result[1].status = "completed"

\* C18: the recognition adapter never propagates a failure of the engine:
\* when the engine throws or returns no result, in detect or in recognize
\* (an empty region list included), the adapter returns an empty sequence.
C18_AdapterNeverPropagates ==
    /\ pipe.pc # "idle" => pipe.raised_in \notin {"detect", "recognize"}
    /\ (pipe.pc = "recognize" /\ pipe.engine \in {"threw", "empty"})
           => pipe.text_regions = << >>
    /\ (pipe.pc = "extract" /\ pipe.engine \in {"threw", "empty"})
           => pipe.recognized_texts = << >>

\* The fields the rule-based strategy looks for.
RuleFieldNames == {"date", "inn", "vin", "license_plate"}

\* C19: the output of rule-based extraction has exactly one entry for every
\* field of its fixed set, whatever the text: a field that matched nothing
\* is there with value null and confidence 0.0.
C19_RulesOutputHasEveryField ==
    RulesTaken
        => /\ pipe.raised_in # "extract"
           /\ \A name \in RuleFieldNames :
                 Cardinality({i \in 1..Len(pipe.extracted_fields) :
                                 pipe.extracted_fields[i].name = name}) = 1

(***************************************************************************)
(*      app service: workers/table_extractor.py, cleanup_temp_files        *)
(*                                                                         *)
(* The sweep next to what leaves files behind: the downloads of            *)
(* POST /process into /tmp/ocr_processing and the temporary files of the   *)
(* ocr-service's process_document.                                         *)
(***************************************************************************)

\* `if file_age > 3600`, in seconds
MaxFileAge == 3600

\* `file_age = time.time() - os.path.getmtime(file_path)`
FileAge(mtime) == now - mtime

\* cleanup_temp_files: every file of /tmp/ocr_processing older than an hour
\* is removed; no other directory is looked at.
cleanup_temp_files ==
    /\ local_files' = [p \in {q \in DOMAIN local_files :
                                 ~(FileAge(local_files[q].mtime) > MaxFileAge)}
                          |-> local_files[p]]
    /\ UNCHANGED <<lib_vars, ocr_vars, now, backend, app_resp>>

\* Time passes, by a second or by an hour: the clock reads at most MaxTime
\* seconds past the start or past the hour.
Elapse(seconds) ==
    /\ now + seconds <= MaxFileAge + MaxTime
    /\ (now + seconds) % MaxFileAge <= MaxTime
    /\ now' = now + seconds
    /\ UNCHANGED <<ocr_vars, app_vars, lib_vars>>

NextSweep ==
    \/ /\ Len(invocations) < MaxTasks
       /\ create_ocr_task
    \/ \E k \in 1..Len(invocations) : Begin(k)
    \/ \E k \in 1..Len(invocations) : UpdStatus(k)
    \/ \E k \in 1..Len(invocations) : UpdCompletedAt(k)
    \/ \E k \in 1..Len(invocations) : UpdFields(k)
    \/ \E k \in 1..Len(invocations) : Download(k)
    \/ \E k \in 1..Len(invocations) : WriteTmp(k)
    \/ \E k \in 1..Len(invocations) : StageStep(k)
    \/ \E k \in 1..Len(invocations) : Report(k)
    \/ \E k \in 1..Len(invocations) : Finally(k)
    \/ \E object \in Objects : process_document(object)
    \/ cleanup_temp_files
    \/ \E seconds \in {1, MaxFileAge} : Elapse(seconds)

SpecSweep == Init /\ [][NextSweep]_vars

(***************************************************************************)
(*                         Properties of the sweep                         *)
(***************************************************************************)

\* C20: each run of the sweep removes every temporary file created for a
\* task that is older than one hour and no file of at most one hour,
\* whichever worker created the file.
C20_SweepRemovesOldTempFiles ==
    [][cleanup_temp_files
          => /\ \A p \in DOMAIN local_files :
                   (FileAge(local_files[p].mtime) > MaxFileAge)
                       <=> p \notin DOMAIN local_files'
             /\ \A n \in DOMAIN tmpfiles :
                   (FileAge(tmpfiles[n]) > MaxFileAge)
                       <=> n \notin DOMAIN tmpfiles']_vars

(***************************************************************************)
(*            app/main.py: POST /api/v1/ocr/process                        *)
(***************************************************************************)

\* settings.API_KEY and a key that differs from it.
ApiKey == "dev-secret-key-change-in-production"
KeysSent == {None, Some(ApiKey), Some("invalid-key")}

\* settings.MAX_FILE_SIZE, in bytes: 10 * 1024 * 1024.
MaxFileSize == 10485760

SupportedContentTypes == {"image/jpeg", "image/png", "application/pdf"}

\* The requests sent: the X-API-Key header, the api_key query parameter, the
\* upload's content type and size.
MainRequests ==
    [header_key : KeysSent,
     query_key : KeysSent,
     content_type : SupportedContentTypes \cup {"text/plain"},
     size : {MaxFileSize, MaxFileSize + 1}]

\* `api_key: Optional[str] = None` in the signature of a route function is a
\* query parameter: it takes ?api_key=... and None when the query has none.
\* No parameter of the handler is bound to a header.
ApiKeyParam(request) == request.query_key

\* ocr_service.process_document(...) returns a result or raises.
OcrServiceOutcomes == {"returns", "raises"}

\* The handler's answer: HTTPException is re-raised with its code, any other
\* exception becomes a JSONResponse with status 500.
MainAnswer(request, outcome) ==
    IF ApiKeyParam(request) /= Some(ApiKey) THEN 401
    ELSE IF ~(request.content_type \in SupportedContentTypes) THEN 400
    ELSE IF request.size > MaxFileSize THEN 400
    ELSE IF outcome = "raises" THEN 500
    ELSE 200

\* The OCR service is called only behind the three checks.
MainProcessed(request) ==
    /\ ApiKeyParam(request) = Some(ApiKey)
    /\ request.content_type \in SupportedContentTypes
    /\ ~(request.size > MaxFileSize)

MainSend(request) ==
    /\ main.pc = "idle"
    /\ main' = [pc |-> "received", request |-> request]
    /\ UNCHANGED <<ocr_vars, now, app_vars, pipe, norm, call>>

main_process_document ==
    /\ main.pc = "received"
    /\ \E outcome \in OcrServiceOutcomes :
          main' = [pc |-> "answered", request |-> main.request,
                   code |-> MainAnswer(main.request, outcome),
                   processed |-> MainProcessed(main.request)]
    /\ UNCHANGED <<ocr_vars, now, app_vars, pipe, norm, call>>

NextMain ==
    \/ \E request \in MainRequests : MainSend(request)
    \/ main_process_document

SpecMain == Init /\ [][NextMain]_vars

\* C21: the endpoint answers 401 exactly when the request does not carry the
\* configured API key in its X-API-Key header; a 401 comes before any file
\* validation or OCR processing.
C21_Unauthorized401IffKeyMissing ==
    main.pc = "answered" =>
        /\ main.code = 401 <=> main.request.header_key /= Some(ApiKey)
        /\ main.code = 401 => ~main.processed

(***************************************************************************)
(*            The order of the stages within one call of process           *)
(***************************************************************************)

PipelineOrder == <<"preprocess", "detect", "recognize", "extract", "postprocess">>

\* Where the call stands after the stage at position pc returned.
AfterStage(pc) ==
    IF \E i \in 1..(Len(PipelineOrder) - 1) : PipelineOrder[i] = pc
    THEN PipelineOrder[(CHOOSE i \in 1..(Len(PipelineOrder) - 1) :
                            PipelineOrder[i] = pc) + 1]
    ELSE "returned"

\* C22: within one call of process the stages run in the order preprocess,
\* detect, recognize, extract, postprocess: every step of the call runs the
\* stage the call stands at, after every earlier stage returned without
\* raising; it either returns and the call moves to the next stage (to its
\* return after the last), or raises and the call returns failed with no
\* further stage run.  No stage runs twice and none runs after a failure.
C22_StagesRunInFixedOrder ==
    [][pipe' /= pipe =>
          /\ \E i \in DOMAIN PipelineOrder : PipelineOrder[i] = pipe.pc
          /\ pipe.raised_in = "none"
          /\ \/ /\ pipe'.raised_in = "none"
                /\ pipe'.pc = AfterStage(pipe.pc)
             \/ /\ pipe'.raised_in = pipe.pc
                /\ pipe'.pc = "returned"
                /\ pipe'.result /= None
                /\ pipe'.result[1].status = "failed"]_vars

\* A call that ran all five stages and returned completed.
C22_Witness ==
    /\ pipe.pc = "returned"
    /\ pipe.raised_in = "none"
    /\ pipe.result /= None
    /\ pipe.result[1].status = "completed"
    /\ pipe.result[1].fields /= << >>

(***************************************************************************)
(*       LayoutLMExtractor._extract_with_model: decoding the labels        *)
(***************************************************************************)
MaxPairs == 3            \* (word, label) pairs of one decoding

DecodeWords == {<<"a">>, <<"b", "c">>}

\* The sequences of (word, label) pairs the loop is given.
PairSeqs ==
    UNION {[1..n -> DecodeWords \X Labels] : n \in 0..MaxPairs}

InitDecode ==
    /\ ServicesInit
    /\ pipe = PipeIdle
    /\ norm = NormIdle
    /\ main = [pc |-> "idle"]
    /\ call \in {[pc |-> "input", fn |-> "decode", pairs |-> p] : p \in PairSeqs}

\* The loop over zip(words, predicted_labels) and the statement behind it.
Decode ==
    /\ call.pc = "input"
    /\ call.fn = "decode"
    /\ call' = [pc |-> "returned", fn |-> "decode", pairs |-> call.pairs,
                fields |-> DecodeLabels([i \in DOMAIN call.pairs |-> call.pairs[i][1]],
                                        [i \in DOMAIN call.pairs |-> call.pairs[i][2]],
                                        1, None, << >>, << >>)]
    /\ UNCHANGED <<ocr_vars, now, app_vars, pipe, norm, main>>

NextDecode == Decode

SpecDecode == InitDecode /\ [][NextDecode]_vars

\* The positions of the 'B-' tags of a sequence of pairs, in order.
BeginPositions(pairs) ==
    SelectSeq([i \in DOMAIN pairs |-> i], LAMBDA i : pairs[i][2].tag = "B")

\* The last position of the maximal run of 'I-' tags right behind position i.
RunOfInside(pairs, i) ==
    CHOOSE j \in i..Len(pairs) :
        /\ \A k \in (i + 1)..j : pairs[k][2].tag = "I"
        /\ j = Len(pairs) \/ pairs[j + 1][2].tag /= "I"

\* C23: model-based extraction emits exactly one field per 'B-' tag, in order
\* of occurrence; the field is named after the tag and its value is the
\* space-joined texts of the 'B-' word and of the maximal run of 'I-' words
\* right behind it; nothing else contributes to a field, and a field open at
\* the end of the sequence is emitted.
C23_OneFieldPerBeginTag ==
    (call.pc = "returned" /\ call.fn = "decode") =>
        LET begins == BeginPositions(call.pairs) IN
        /\ Len(call.fields) = Len(begins)
        /\ \A n \in DOMAIN begins :
              /\ call.fields[n].name = call.pairs[begins[n]][2].name
              /\ call.fields[n].value =
                    JoinWith([k \in 1..(RunOfInside(call.pairs, begins[n]) - begins[n] + 1)
                                 |-> call.pairs[begins[n] + k - 1][1]], <<" ">>)

(***************************************************************************)
(*               Properties of the app service, continued                  *)
(***************************************************************************)

\* The task was dispatched and its worker has not finished with it: it waits
\* in the queue (first delivery or retry) or is being processed.
AppInProgress(k) == backend[k].pc /= "done"

\* C24: two tasks in progress at the same time never use the same local
\* temporary file path, also when their source objects share a base name;
\* the file at a task's path is the one downloaded for that task, not one
\* another task wrote over it.  The same for the temporary files of the
\* ocr-service's running invocations.
C24_ConcurrentTasksUseOwnTempPath ==
    /\ \A k1, k2 \in 1..Len(backend) :
          (k1 /= k2 /\ AppInProgress(k1) /\ AppInProgress(k2))
              => backend[k1].file_path /= backend[k2].file_path
    /\ \A k \in 1..Len(backend) :
          (AppInProgress(k) /\ backend[k].file_path \in DOMAIN local_files)
              => local_files[backend[k].file_path].task = k
    /\ \A i, j \in 1..Len(invocations) :
          (i /= j /\ Running(i) /\ Running(j) /\ invocations[i].tmp_path /= None)
              => invocations[i].tmp_path /= invocations[j].tmp_path

(***************************************************************************)
(*                  TextPostprocessor._format_inn alone                    *)
(***************************************************************************)
MaxInnLen == 13          \* digits of a value given to _format_inn

DigitRow == <<"0", "1", "2", "3", "4", "5", "6", "7", "8", "9">>

\* n digits in a row, counted on from `first`.
DigitRun(first, n) == [i \in 1..n |-> DigitRow[((first + i - 1) % 10) + 1]]

\* The value as written: bare, or with a separator behind its k-th character.
Separated(s, sep, k) ==
    IF k < Len(s) THEN SubSeq(s, 1, k) \o <<sep>> \o SubSeq(s, k + 1, Len(s)) ELSE s

InnValues ==
    UNION {{DigitRun(first, n),
            Separated(DigitRun(first, n), " ", 4),
            Separated(DigitRun(first, n), "-", 2)} :
              first \in {0, 1, 5}, n \in 0..MaxInnLen}

InitInn ==
    /\ ServicesInit
    /\ pipe = PipeIdle
    /\ norm = NormIdle
    /\ main = [pc |-> "idle"]
    /\ call \in {[pc |-> "input", fn |-> "inn", value |-> v] : v \in InnValues}

\* self._format_inn(value)
FormatInnCall ==
    /\ call.pc = "input"
    /\ call.fn = "inn"
    /\ call' = [pc |-> "returned", fn |-> "inn", value |-> call.value,
                formatted |-> FormatInn(call.value)]
    /\ UNCHANGED <<ocr_vars, now, app_vars, pipe, norm, main>>

NextInn == FormatInnCall

SpecInn == InitInn /\ [][NextInn]_vars

\* C25: tax-ID normalization only regroups digits: for an input with exactly
\* 10 or exactly 12 digits the digits of the output, read in order, are the
\* digits of the input, none dropped and none repeated; an input with any
\* other number of digits is returned unchanged.
C25_InnKeepsDigits ==
    (call.pc = "returned" /\ call.fn = "inn") =>
        IF Len(OnlyDigits(call.value)) \in {10, 12}
        THEN OnlyDigits(call.formatted) = OnlyDigits(call.value)
        ELSE call.formatted = call.value

(***************************************************************************)
(*             Properties of the ocr-service's task registry               *)
(***************************************************************************)

\* C26: in every state of the task registry a task's completed_at is set
\* only if its status is terminal (completed, failed or cancelled); a task
\* in pending or processing has completed_at null.
C26_CompletedAtOnlyWhenTerminal ==
    \A t \in DOMAIN tasks_storage :
        tasks_storage[t].completed_at /= None
            => tasks_storage[t].status \in TerminalStatuses

\* C27: every status value written to the registry is a member of the status
\* set the status response accepts, so the status query of a task that was
\* cancelled answers 200 with status cancelled.
C27_WrittenStatusesAccepted ==
    \A t \in DOMAIN tasks_storage :
        /\ tasks_storage[t].status \in ProcessingStatus
        /\ tasks_storage[t].status = "cancelled"
              => /\ StatusResponse(t).code = 200
                 /\ StatusResponse(t).body[1].status = "cancelled"

(***************************************************************************)
(*            ocr-service: api/routes.py, POST /ocr/sync                   *)
(***************************************************************************)

\* `pipeline = OCRPipeline()`: the constructor builds the OCR engine outside
\* any try of its own and may raise; the handler's except turns that into a
\* 500.  Otherwise `pipeline.process(request.file_url)` is entered.
SyncBegin(image, model) ==
    /\ pipe.pc = "idle"
    /\ resp.op = "none"
    /\ \/ /\ pipe' = NewPipelineCall(image, model)
          /\ UNCHANGED resp
       \/ /\ resp' = [op |-> "sync", code |-> 500]
          /\ UNCHANGED pipe
    /\ UNCHANGED <<tasks_storage, invocations, tmpfiles, now, app_vars, norm, ext_vars>>

\* `return {"status": "completed", "result": result}` with what process returned.
SyncResponse(result) ==
    [op |-> "sync", code |-> 200,
     body |-> [status |-> "completed", result |-> result]]

SyncReturn ==
    /\ pipe.pc = "returned"
    /\ resp.op = "none"
    /\ resp' = SyncResponse(pipe.result[1])
    /\ UNCHANGED <<tasks_storage, invocations, tmpfiles, now, app_vars, lib_vars>>

process_document_sync ==
    \/ \E image \in {"readable", "unreadable"}, model \in {"loaded", "none"} :
          SyncBegin(image, model)
    \/ NextPipeline
    \/ SyncReturn

SpecSync == Init /\ [][process_document_sync]_vars

\* C28: the synchronous endpoint reports status completed only when the
\* pipeline's result has status completed; when the pipeline's result is
\* failed the endpoint reports a failure and wraps no failed result in a
\* completed response.
C28_SyncCompletedOnlyIfPipelineCompleted ==
    (resp.op = "sync" /\ pipe.pc = "returned") =>
        IF pipe.result[1].status = "completed"
        THEN resp.code = 200 /\ resp.body.status = "completed"
        ELSE resp.code >= 400

(***************************************************************************)
(*        Both task managers with their workers scheduled fairly           *)
(***************************************************************************)

\* One step of the worker that runs invocation k of process_document.
OcrWorkerStep(k) ==
    /\ k \in 1..Len(invocations)
    /\ \/ Begin(k)
       \/ UpdStatus(k)
       \/ UpdCompletedAt(k)
       \/ UpdFields(k)
       \/ Download(k)
       \/ WriteTmp(k)
       \/ StageStep(k)
       \/ Report(k)
       \/ Finally(k)

\* One step of the worker that runs the k-th process_document_task.
AppWorkerStep(k) ==
    /\ k \in 1..Len(backend)
    /\ \/ TaskStart(k)
       \/ TaskSucceed(k)
       \/ TaskFail(k)

\* Submissions, cancellations, and the workers.  The two services are
\* separate programs that share nothing: a run follows the one that received
\* the first task.
NextWorkers ==
    \/ /\ backend = << >>
       /\ Len(invocations) < MaxTasks
       /\ create_ocr_task
    \/ \E t \in DOMAIN tasks_storage : cancel_task(t)
    \/ \E k \in 1..MaxTasks : OcrWorkerStep(k)
    \/ /\ invocations = << >>
       /\ Len(backend) < MaxTasks
       /\ \E object \in Objects : process_document(object)
    \/ \E k \in 1..MaxTasks : AppWorkerStep(k)

\* Celery delivers every message to a worker, and a worker that has taken a
\* message runs the task function to its return or its raise: no worker step
\* that stays possible is put off for ever.
SpecWorkers ==
    /\ Init
    /\ [][NextWorkers]_vars
    /\ \A k \in 1..MaxTasks : WF_vars(OcrWorkerStep(k))
    /\ \A k \in 1..MaxTasks : WF_vars(AppWorkerStep(k))

\* C29: every submitted task eventually reaches a terminal status: the record
\* of a task in the ocr-service's registry gets status completed, failed or
\* cancelled, and the Celery task of the app service gets state SUCCESS or
\* FAILURE.  The pipeline of a task is attempted at most MaxRetries + 1 = 4
\* times, and the n-th retry is scheduled with countdown RetryBackoff * n.
C29_TasksTerminateWithinRetryBudget ==
    /\ \A n \in 1..MaxTasks :
          (Uuid4(n) \in DOMAIN tasks_storage)
              ~> (/\ Uuid4(n) \in DOMAIN tasks_storage
                  /\ tasks_storage[Uuid4(n)].status \in TerminalStatuses)
    /\ \A k \in 1..MaxTasks :
          (k <= Len(backend))
              ~> (k <= Len(backend) /\ backend[k].state \in {"SUCCESS", "FAILURE"})
    /\ [](\A k \in 1..Len(backend) :
             /\ Len(backend[k].attempts) <= MaxRetries + 1
             /\ backend[k].retries <= MaxRetries
             /\ backend[k].state = "RETRY"
                   => backend[k].countdown = RetryBackoff * backend[k].retries)
    /\ [](\A t \in DOMAIN tasks_storage :
             Cardinality({k \in 1..Len(invocations) : invocations[k].task_id = t})
                <= MaxRetries + 1)

\* A task that used its first attempt and all three retries and has ended.
C29_Witness ==
    \E k \in 1..Len(backend) :
        /\ backend[k].pc = "done"
        /\ backend[k].state \in {"SUCCESS", "FAILURE"}
        /\ Len(backend[k].attempts) = MaxRetries + 1
        /\ backend[k].countdown = RetryBackoff * MaxRetries

\* C30: the sweep never removes the temporary file of a task that is still
\* non-terminal (downloaded and waiting in the queue, being processed, or
\* waiting for a retry): the file downloaded for such a task is still there
\* after every run of the sweep.
C30_SweepSparesFilesOfLiveTasks ==
    [][cleanup_temp_files =>
          \A k \in 1..Len(backend) :
              (/\ AppInProgress(k)
               /\ backend[k].file_path \in DOMAIN local_files
               /\ local_files[backend[k].file_path].task = k)
                  => backend[k].file_path \in DOMAIN local_files']_vars

====
